---- MODULE Spec2Model ----
(***************************************************************************)
(* Model of the ephemeral preview orchestrator (src/unnamed/part_002):     *)
(* createProjectPreview, stopPreview, stopAllPreviews, listActivePreviews  *)
(* and their helpers, running against a container runtime, the host's      *)
(* listening ports and the previews/ directory.                            *)
(*                                                                         *)
(* Every `await` of an async function is a point where other handlers of   *)
(* the same process may run, so each awaited call is one action; code      *)
(* between two awaits (and every execSync) runs atomically.                *)
(***************************************************************************)
EXTENDS Integers, Sequences, FiniteSets, TLC

(***************************************************************************)
(* Bounds of the model                                                     *)
(***************************************************************************)
\* number of createProjectPreview calls that may be in flight together
MaxRequests == 2
\* number of distinct values uuidv4().substring(0, 8) takes in the model
MaxIds == 2

Req == 1..MaxRequests
IDS == 1..MaxIds

(***************************************************************************)
(* Program constants                                                       *)
(***************************************************************************)
PORT_RANGE_START == 3001
PORT_RANGE_END == 9000
maxRetries == 30

\* JavaScript `undefined` for a text field / for a port (both are falsy)
NoText == <<"undefined">>
NoPort == 0

Archetypes == {"react", "nextjs", "vue", "nodejs", "python", "flask", "static"}

TemplateText(t) == <<"template", t>>

PROJECT_CONFIGS ==
  [t \in Archetypes |->
     [dockerfile   |-> TemplateText(t),
      buildCommand |-> <<"build", t>>,
      startCommand |-> <<"start", t>>,
      port         |-> CASE t = "react"  -> 80
                         [] t = "nextjs" -> 3000
                         [] t = "vue"    -> 8080
                         [] t = "nodejs" -> 8000
                         [] t = "python" -> 8000
                         [] t = "flask"  -> 5000
                         [] t = "static" -> 80,
      healthCheck  |-> IF t \in {"nodejs", "python"} THEN "/health" ELSE "/"]]

\* PROJECT_CONFIGS[projectType] for a key that is not in the table: spreading
\* `undefined` contributes no property at all
NoConfig ==
  [dockerfile |-> NoText, buildCommand |-> NoText, startCommand |-> NoText,
   port |-> NoPort, healthCheck |-> "undefined"]

LookupConfig(projectType) ==
  IF projectType \in Archetypes THEN PROJECT_CONFIGS[projectType] ELSE NoConfig


(***************************************************************************)
(* Repository files as returned by fetchRepositoryFiles                    *)
(*                                                                         *)
(* A file name is modelled by its lower-case stem and extension and by     *)
(* whether the original spelling has an upper-case letter, which is all    *)
(* that toLowerCase(), ===, includes() and endsWith('.py') look at.        *)
(* A content is modelled by what JSON.parse and includes('flask') make of  *)
(* it.                                                                     *)
(***************************************************************************)
FileName(stem, ext, caps) == [stem |-> stem, ext |-> ext, caps |-> caps]

toLowerCase(name) == [name EXCEPT !.caps = FALSE]

\* content kinds: "empty" is the empty string (falsy), "invalid" makes
\* JSON.parse throw, "manifest" parses to an object with the two dependency
\* maps, "text" is any other text
Content(kind, deps, devDeps, flask) ==
  [kind |-> kind, deps |-> deps, devDeps |-> devDeps, flask |-> flask]

TextContent(flask) == Content("text", {}, {}, flask)
ManifestContent(deps, devDeps) == Content("manifest", deps, devDeps, FALSE)

File(name, content) == [name |-> name, content |-> content]

SeqToSet(s) == {s[i] : i \in 1..Len(s)}

\* a find that returns the last hit
FirstIndex_Last(hits) ==
  IF hits = {} THEN 0 ELSE CHOOSE i \in hits : \A j \in hits : i >= j

\* files.find(pred) returns the first hit: the least index among the hits,
\* 0 when there is none
FirstIndex(hits) ==
  IF hits = {} THEN 0 ELSE CHOOSE i \in hits : \A j \in hits : i <= j

isName(n, stem, ext) == n = FileName(stem, ext, FALSE)

\* fileNames = files.map(file => file.name.toLowerCase()), as a set
LowerNames(files) == {toLowerCase(files[i].name) : i \in 1..Len(files)}

\* the Vue test placed before the React tests
fromDependencies_VueFirst(dependencies, hasViteConfig) ==
  LET hasReact == "react" \in dependencies \/ "react-dom" \in dependencies
  IN IF "next" \in dependencies \/ "@next/core" \in dependencies THEN "nextjs"
     ELSE IF "vue" \in dependencies \/ "@vue/cli" \in dependencies THEN "vue"
     ELSE IF hasViteConfig /\ hasReact THEN "react"
     ELSE IF "vite" \in dependencies /\ hasReact THEN "react"
     ELSE "nodejs"

\* lines 199-208: the tests on the merged dependency names, in order
fromDependencies(dependencies, hasViteConfig) ==
  LET hasReact == "react" \in dependencies \/ "react-dom" \in dependencies
  IN IF "next" \in dependencies \/ "@next/core" \in dependencies THEN "nextjs"
     ELSE IF hasViteConfig /\ hasReact THEN "react"
     ELSE IF "vite" \in dependencies /\ hasReact THEN "react"
     ELSE IF "vue" \in dependencies \/ "@vue/cli" \in dependencies THEN "vue"
     ELSE IF "express" \in dependencies \/ "fastify" \in dependencies THEN "nodejs"
     ELSE "nodejs"

\* a detector whose catch-all is the Node.js archetype
detectWithoutManifest_NodeDefault(files) ==
  LET names == LowerNames(files)
  IN IF \/ \E n \in names : isName(n, "requirements", "txt")
        \/ \E n \in names : n.ext = "py"
     THEN "python"
     ELSE IF \E n \in names : isName(n, "index", "html") THEN "static" ELSE "nodejs"

\* lines 213-224: the list has no package.json
detectWithoutManifest(files) ==
  LET names == LowerNames(files)
      hasFlaskApp ==
        FirstIndex({i \in 1..Len(files) :
                      /\ files[i].name = FileName("app", "py", FALSE)
                      /\ files[i].content.flask}) # 0
  IN IF \/ \E n \in names : isName(n, "requirements", "txt")
        \/ \E n \in names : n.ext = "py"
     THEN IF (\E n \in names : isName(n, "app", "py")) /\ hasFlaskApp
          THEN "flask" ELSE "python"
     ELSE IF \E n \in names : isName(n, "index", "html")
          THEN "static"
          ELSE "static"

detectProjectType(files) ==
  LET names == LowerNames(files)
      hasViteConfig ==
        \E n \in names : \/ isName(n, "vite.config", "js")
                         \/ isName(n, "vite.config", "ts")
                         \/ isName(n, "vite.config", "mjs")
      pkgIdx == FirstIndex({i \in 1..Len(files) :
                              isName(toLowerCase(files[i].name), "package", "json")})
      pkg == files[pkgIdx].content
  IN IF \E n \in names : isName(n, "package", "json")
     THEN IF pkg.kind # "manifest" THEN "nodejs"
          ELSE fromDependencies(pkg.deps \cup pkg.devDeps, hasViteConfig)
     ELSE detectWithoutManifest(files)


(***************************************************************************)
(* Inputs of the model                                                     *)
(***************************************************************************)
\* options.projectType: absent, a known archetype, or a tag outside the table
OptTypes == {"undefined", "nodejs", "auto"}

\* options.dockerConfig: a property that is not supplied is NoText / NoPort
DockerConfig(dockerfile, port) ==
  [dockerfile |-> dockerfile, buildCommand |-> NoText, startCommand |-> NoText,
   port |-> port]

AbsentConfig == DockerConfig(NoText, NoPort)
CustomText == <<"custom">>
DockerConfigs ==
  {AbsentConfig, DockerConfig(NoText, 4000), DockerConfig(CustomText, NoPort)}

ReactViteFiles ==
  << File(FileName("package", "json", FALSE), ManifestContent({"react", "vite"}, {})),
     File(FileName("vite.config", "js", FALSE), TextContent(FALSE)) >>
FlaskFiles ==
  << File(FileName("app", "py", FALSE), TextContent(TRUE)) >>
\* what fetchRepositoryFiles returns in Spec and in SpecConc
FileLists == {ReactViteFiles}
ConcFileLists == {FlaskFiles}

\* the files of SpecDetect: manifests that parse, one that does not and an
\* empty one, Vite configuration files, Python markers, index.html and a file
\* no test looks at; some names are spelled with an upper-case letter
MaxFiles == 3

DetectDeps ==
  { <<{"react"}, {}>>, <<{"react", "vue"}, {}>>, <<{"react-dom"}, {"@vue/cli"}>>,
    <<{"react", "@next/core"}, {}>>, <<{"next", "react"}, {}>>,
    <<{"vite"}, {"react"}>>, <<{"vue"}, {}>>, <<{"express"}, {}>>, <<{}, {}>> }

DetectFiles ==
  {File(FileName("package", "json", FALSE), ManifestContent(d[1], d[2])) : d \in DetectDeps}
  \cup
  { File(FileName("package", "json", TRUE), Content("invalid", {}, {}, FALSE)),
    File(FileName("package", "json", FALSE), Content("empty", {}, {}, FALSE)),
    File(FileName("vite.config", "js", FALSE), TextContent(FALSE)),
    File(FileName("vite.config", "ts", FALSE), TextContent(FALSE)),
    File(FileName("vite.config", "mjs", TRUE), TextContent(FALSE)),
    File(FileName("requirements", "txt", FALSE), TextContent(FALSE)),
    File(FileName("app", "py", FALSE), TextContent(TRUE)),
    File(FileName("app", "py", FALSE), TextContent(FALSE)),
    File(FileName("app", "py", TRUE), TextContent(TRUE)),
    File(FileName("main", "py", FALSE), TextContent(FALSE)),
    File(FileName("index", "html", FALSE), TextContent(FALSE)),
    File(FileName("readme", "md", TRUE), TextContent(FALSE)) }

\* what fetchRepositoryFiles returns in SpecDetect: every list of at most
\* MaxFiles of these files, in every order
DetectLists == UNION {[1..n -> DetectFiles] : n \in 0..MaxFiles}

(***************************************************************************)
(* State                                                                   *)
(***************************************************************************)
VARIABLES
  pc,          \* position of each createProjectPreview call
  pid,         \* its projectId
  optType,     \* options.projectType
  optCfg,      \* options.dockerConfig
  files,       \* the fetched files
  ptype,       \* projectType (line 516)
  avail,       \* the port findAvailablePort is probing, then availablePort
  tries,       \* the loop counter i of checkContainerHealth
  probed,      \* the port of the URL the last health probe was sent to
  err,         \* the phase whose error the catch block holds
  msg,         \* the message of that error
  outcome,     \* what the call returned or threw
  buildSt,     \* "none", "ok" or "failed": buildDockerImage of this call
  runSt,       \* "none", "ok" or "failed": runDockerContainer of this call
  containers,  \* the runtime's running containers
  images,      \* the runtime's image tags
  fsDirs,      \* the directories under previews/
  alive,       \* FALSE once an uncaught exception has ended the process
  stopPc,      \* position of the client's stopPreview call
  stopId,      \* its projectId
  stopOut,     \* what it returned or threw
  stopSecond,  \* whether it follows a successful stopPreview of the same id
  lastStopped, \* the id of the last handler run, if that was a successful stopPreview
  wsPc,        \* position of a createProjectWorkspace call followed file by file
  wsId,        \* its projectId
  wsFiles,     \* its files
  wsIdx,       \* the position of its for loop in files
  fsFiles,      \* the files under previews/: path and bytes
  allOut,      \* what the last stopAllPreviews returned, until its client has it
  allStopped   \* the ids whose container a stopAllPreviews stopped, not run since

vars ==
  << pc, pid, optType, optCfg, files, ptype, avail, tries, probed, err, msg, outcome,
     buildSt, runSt, containers, images, fsDirs, alive,
     stopPc, stopId, stopOut, stopSecond, lastStopped,
     wsPc, wsId, wsFiles, wsIdx, fsFiles, allOut, allStopped >>

reqVars ==
  << pc, pid, optType, optCfg, files, ptype, avail, tries, probed, err, msg, outcome,
     buildSt, runSt >>
stopVars == << stopPc, stopId, stopOut, stopSecond >>
wsVars == << wsPc, wsId, wsFiles, wsIdx, fsFiles >>
allVars == << allOut, allStopped >>

NoId == 0
\* no stopAllPreviews has an answer to deliver
NoAll ==
  [success |-> FALSE, stopped |-> <<>>, listed |-> <<>>, attempted |-> {},
   stopOk |-> {}, rmiOk |-> {}]

NoOutcome ==
  [kind |-> "none", phase |-> "none", projectId |-> NoId, projectType |-> "none",
   port |-> NoPort, containerName |-> <<>>, healthy |-> FALSE, message |-> NoText]


(***************************************************************************)
(* Helpers of the handlers                                                 *)
(***************************************************************************)
\* `preview-${projectId}`: the image tag and the container name
PreviewName(projectId) == <<"preview-", projectId>>

\* name.replace('preview-', '')
StripPrefix(name) == IF Len(name) > 0 /\ name[1] = "preview-" THEN Tail(name) ELSE name

\* path.join(process.cwd(), 'previews', projectId)
workspaceDir(projectId) == <<"previews", projectId>>

\* a workspace that gets a fresh numbered directory instead of previews/<id>
createProjectWorkspace_Numbered(projectId, fileList, dirs) ==
  dirs \cup {<<"previews", projectId, Cardinality(dirs)>>}

\* createProjectWorkspace on success: mkdir -p of the workspace directory and
\* of every file's directory, and the files written
createProjectWorkspace(projectId, fileList, dirs) ==
  dirs \cup {workspaceDir(projectId)}

\* the spread written the other way round: the template wins
MergeConfig_TemplateWins(projectType, customConfig) ==
  LET base == LookupConfig(projectType)
  IN IF projectType \in Archetypes THEN base
     ELSE [base EXCEPT !.dockerfile = customConfig.dockerfile,
                       !.port = customConfig.port]

\* { ...PROJECT_CONFIGS[projectType], ...customConfig }
MergeConfig(projectType, customConfig) ==
  LET base == LookupConfig(projectType)
  IN [dockerfile   |-> IF customConfig.dockerfile # NoText
                       THEN customConfig.dockerfile ELSE base.dockerfile,
      buildCommand |-> IF customConfig.buildCommand # NoText
                       THEN customConfig.buildCommand ELSE base.buildCommand,
      startCommand |-> IF customConfig.startCommand # NoText
                       THEN customConfig.startCommand ELSE base.startCommand,
      port         |-> IF customConfig.port # NoPort
                       THEN customConfig.port ELSE base.port,
      healthCheck  |-> base.healthCheck]

\* the config generateDockerfile returns (when it returns)
generateDockerfile(projectType, customConfig) == MergeConfig(projectType, customConfig)

\* config.dockerfile.trim() throws a TypeError on undefined
DockerfileThrows(config) == config.dockerfile = NoText

\* the config of call r, once generateDockerfile has returned it
config(r) == generateDockerfile(ptype[r], optCfg[r])

\* defaultPort || PORT_RANGE_START and defaultPort || 80 (0 and undefined are falsy)
SeedPort(defaultPort) == IF defaultPort # NoPort THEN defaultPort ELSE PORT_RANGE_START
InternalPort(defaultPort) == IF defaultPort # NoPort THEN defaultPort ELSE 80

\* the host ports the runtime has published (docker-proxy listens on them)
BoundPorts == {c.hostPort : c \in containers}

\* what server.listen(port) can do: a port below 1024 needs privileges the
\* process may or may not have
ListenResults(port) ==
  IF port \in BoundPorts THEN {"EADDRINUSE"}
  ELSE IF port < 1024 THEN {"listening", "EACCES"}
  ELSE {"listening"}

\* an error handler that resolves with the port it could not bind
findAvailablePortStep_IgnoresInUse(startPort, listenResult) ==
  IF listenResult \in {"listening", "EADDRINUSE"}
  THEN [kind |-> "resolve", port |-> startPort]
  ELSE [kind |-> "reject", port |-> startPort]

\* one round of findAvailablePort(startPort), given what listen did
findAvailablePortStep(startPort, listenResult) ==
  IF listenResult = "listening"
  THEN [kind |-> "resolve", port |-> startPort]
  ELSE IF listenResult = "EADDRINUSE"
       THEN IF startPort < PORT_RANGE_END
            THEN [kind |-> "retry", port |-> startPort + 1]
            ELSE [kind |-> "reject", port |-> startPort]
       ELSE [kind |-> "reject", port |-> startPort]

\* docker run -d --name containerName -p hostPort:internalPort --rm imageName
\* can start the container only if the image exists, the name is free and the
\* host port is not published
CanRun(imageName, containerName, hostPort) ==
  /\ imageName \in images
  /\ \A c \in containers : c.name # containerName
  /\ hostPort \notin BoundPorts

Container(containerName, imageName, hostPort, internalPort) ==
  [name |-> containerName, image |-> imageName,
   hostPort |-> hostPort, internalPort |-> internalPort]

\* the responses a GET to http://localhost:<port><healthPath> can get: a
\* connection error unless a container is published on that port
ProbeResponses(port) ==
  IF port \in BoundPorts THEN {"2xx", "non2xx", "error"} ELSE {"error"}

\* a loop that goes round once more
HealthLoopGoesOn_OneMore(i, limit) == i <= limit

\* line 389: the loop test i < maxRetries, after i++
HealthLoopGoesOn(i, limit) == i < limit

\* the port checkContainerHealth is called with (line 537)
HealthPort(cfg, containerInfoPort) == cfg.port

\* preview.port of the result (lines 547-548)
ResultPort(cfg, containerInfoPort) == cfg.port

\* a fetch whose failure is swallowed, a build whose failure is swallowed, and a
\* failed health check that throws
AfterFetch_Swallowed(ok) == "workspace"
\* a failed run that is tried again
AfterRun_Retried(ok) == IF ok THEN "health" ELSE "probe"
AfterBuild_Swallowed(ok) == "probe"
AfterHealth_Throws(healthy) == IF healthy THEN "done" ELSE "cleanup"

\* where createProjectPreview goes after each phase
AfterFetch(ok) == IF ok THEN "workspace" ELSE "cleanup"
AfterBuild(ok) == IF ok THEN "probe" ELSE "cleanup"
AfterRun(ok) == IF ok THEN "health" ELSE "cleanup"
AfterHealth(healthy) == "done"

\* a stopPreview that removes the image and lets the container run
StopSync_LeavesContainer(projectId) ==
  LET name == PreviewName(projectId)
  IN IF name \in images
     THEN [threw |-> FALSE, containers |-> containers, images |-> images \ {name}]
     ELSE [threw |-> TRUE, containers |-> containers, images |-> images]

\* a stopPreview whose docker stop of a missing container is not an error
StopSync_IgnoresMissing(projectId) ==
  LET name == PreviewName(projectId)
      cs == {c \in containers : c.name # name}
  IN [threw |-> FALSE, containers |-> cs, images |-> images \ {name}]

\* the synchronous part of stopPreview(projectId): docker stop, then docker
\* rmi; the first execSync that exits non-zero throws and skips the rest
StopSync(projectId) ==
  LET name == PreviewName(projectId)
      stopOk == \E c \in containers : c.name = name
      cs == {c \in containers : c.name # name}
      rmiOk == name \in images
  IN IF ~stopOk THEN [threw |-> TRUE, containers |-> containers, images |-> images]
     ELSE IF ~rmiOk THEN [threw |-> TRUE, containers |-> cs, images |-> images]
     ELSE [threw |-> FALSE, containers |-> cs, images |-> images \ {name}]

\* fs.rm(workspaceDir, { recursive: true, force: true })
RemoveWorkspace(projectId, dirs) == dirs \ {workspaceDir(projectId)}

Resolved(r, healthy) ==
  [kind |-> "resolved", phase |-> "none", projectId |-> pid[r],
   projectType |-> ptype[r], port |-> ResultPort(config(r), avail[r]),
   containerName |-> PreviewName(pid[r]), healthy |-> healthy, message |-> NoText]

\* the message of the rejection of findAvailablePort
PortErrorMessage(listenResult) ==
  IF listenResult = "EADDRINUSE" THEN <<"No available ports in range">>
  ELSE <<"listen ", listenResult>>

\* the message of what generateDockerfile throws: the TypeError of
\* undefined.trim(), or the ENOENT of writeFile
DockerfileErrorMessage(cfg, projectId) ==
  IF DockerfileThrows(cfg)
  THEN <<"Cannot read properties of undefined (reading 'trim')">>
  ELSE <<"ENOENT: no such file or directory, open ", workspaceDir(projectId), "Dockerfile">>

StopErrorMessage == <<"Failed to stop preview: ", "Command failed">>

\* a catch block that throws the error of the cleanup when there is one
CatchMessage_CleanupWins(original, cleanupThrew) ==
  IF cleanupThrew THEN StopErrorMessage
  ELSE <<"Preview creation failed: ", original>>

\* line 577: throw new Error(`Preview creation failed: ${error.message}`)
CatchMessage(original, cleanupThrew) == <<"Preview creation failed: ", original>>

Rejected(r, cleanupThrew) ==
  [NoOutcome EXCEPT !.kind = "rejected", !.phase = err[r], !.projectId = pid[r],
                    !.message = CatchMessage(msg[r], cleanupThrew)]


(***************************************************************************)
(* Initial state: no call in flight, an empty runtime, an empty previews/  *)
(***************************************************************************)
Init ==
  /\ pc = [r \in Req |-> "idle"]
  /\ pid = [r \in Req |-> NoId]
  /\ optType = [r \in Req |-> "undefined"]
  /\ optCfg = [r \in Req |-> AbsentConfig]
  /\ files = [r \in Req |-> <<>>]
  /\ ptype = [r \in Req |-> "none"]
  /\ avail = [r \in Req |-> NoPort]
  /\ tries = [r \in Req |-> 0]
  /\ probed = [r \in Req |-> NoPort]
  /\ err = [r \in Req |-> "none"]
  /\ msg = [r \in Req |-> NoText]
  /\ outcome = [r \in Req |-> NoOutcome]
  /\ buildSt = [r \in Req |-> "none"]
  /\ runSt = [r \in Req |-> "none"]
  /\ containers = {}
  /\ images = {}
  /\ fsDirs = {}
  /\ alive = TRUE
  /\ stopPc = "idle"
  /\ stopId = NoId
  /\ stopOut = "none"
  /\ stopSecond = FALSE
  /\ lastStopped = NoId
  /\ wsPc = "idle"
  /\ wsId = NoId
  /\ wsFiles = <<>>
  /\ wsIdx = 0
  /\ fsFiles = {}
  /\ allOut = NoAll
  /\ allStopped = {}

(***************************************************************************)
(* createProjectPreview(owner, repo, options)                              *)
(***************************************************************************)
\* lines 503-509: the call starts; uuidv4().substring(0, 8) is any identifier
CreateStart(r, types, configs) ==
  /\ alive /\ pc[r] = "idle"
  /\ \E id \in IDS, t \in types, c \in configs :
       /\ pid' = [pid EXCEPT ![r] = id]
       /\ optType' = [optType EXCEPT ![r] = t]
       /\ optCfg' = [optCfg EXCEPT ![r] = c]
  /\ pc' = [pc EXCEPT ![r] = "fetch"]
  /\ UNCHANGED << files, ptype, avail, tries, probed, err, msg, outcome, buildSt, runSt,
                  containers, images, fsDirs, alive, wsVars, allVars, stopVars, lastStopped >>

\* lines 512-516: fetchRepositoryFiles resolves; the type is the option or detected
FetchOk(r, lists) ==
  /\ alive /\ pc[r] = "fetch"
  /\ \E fl \in lists :
       /\ files' = [files EXCEPT ![r] = fl]
       /\ ptype' = [ptype EXCEPT ![r] =
                      IF optType[r] # "undefined" THEN optType[r]
                      ELSE detectProjectType(fl)]
  /\ pc' = [pc EXCEPT ![r] = AfterFetch(TRUE)]
  /\ UNCHANGED << pid, optType, optCfg, avail, tries, probed, err, msg, outcome, buildSt,
                  runSt, containers, images, fsDirs, alive, wsVars, allVars, stopVars, lastStopped >>

\* lines 264-266: fetchRepositoryFiles rejects
FetchFail(r) ==
  /\ alive /\ pc[r] = "fetch"
  /\ err' = [err EXCEPT ![r] = "fetch"]
  /\ msg' = [msg EXCEPT ![r] = <<"Failed to fetch repository files: ", "cause">>]
  /\ pc' = [pc EXCEPT ![r] = AfterFetch(FALSE)]
  /\ UNCHANGED << pid, optType, optCfg, files, ptype, avail, tries, probed, outcome,
                  buildSt, runSt, containers, images, fsDirs, alive, wsVars, allVars, stopVars,
                  lastStopped >>

\* line 520: createProjectWorkspace resolves
WorkspaceOk(r) ==
  /\ alive /\ pc[r] = "workspace"
  /\ fsDirs' = createProjectWorkspace(pid[r], files[r], fsDirs)
  /\ pc' = [pc EXCEPT ![r] = "dockerfile"]
  /\ lastStopped' = IF lastStopped = pid[r] THEN NoId ELSE lastStopped
  /\ UNCHANGED << pid, optType, optCfg, files, ptype, avail, tries, probed, err, msg,
                  outcome, buildSt, runSt, containers, images, alive, wsVars, allVars, stopVars >>

\* lines 290-292: a mkdir or a writeFile fails; what was written before stays
WorkspaceFail(r) ==
  /\ alive /\ pc[r] = "workspace"
  /\ \E made \in BOOLEAN :
       fsDirs' = IF made THEN createProjectWorkspace(pid[r], files[r], fsDirs)
                 ELSE fsDirs
  /\ err' = [err EXCEPT ![r] = "workspace"]
  /\ msg' = [msg EXCEPT ![r] = <<"Failed to create workspace: ", "cause">>]
  /\ pc' = [pc EXCEPT ![r] = "cleanup"]
  /\ lastStopped' = IF lastStopped = pid[r] THEN NoId ELSE lastStopped
  /\ UNCHANGED << pid, optType, optCfg, files, ptype, avail, tries, probed, outcome,
                  buildSt, runSt, containers, images, alive, wsVars, allVars, stopVars >>

\* line 524: generateDockerfile; it throws on a config without dockerfile text
\* and when the workspace directory is gone (ENOENT)
Dockerfile(r) ==
  /\ alive /\ pc[r] = "dockerfile"
  /\ IF DockerfileThrows(config(r)) \/ workspaceDir(pid[r]) \notin fsDirs
     THEN /\ err' = [err EXCEPT ![r] = "dockerfile"]
          /\ msg' = [msg EXCEPT ![r] = DockerfileErrorMessage(config(r), pid[r])]
          /\ pc' = [pc EXCEPT ![r] = "cleanup"]
     ELSE /\ pc' = [pc EXCEPT ![r] = "build"]
          /\ UNCHANGED << err, msg >>
  /\ UNCHANGED << pid, optType, optCfg, files, ptype, avail, tries, probed, outcome,
                  buildSt, runSt, containers, images, fsDirs, alive, wsVars, allVars, stopVars,
                  lastStopped >>

\* line 528: buildDockerImage; docker build exits 0 or not.  runDockerContainer
\* then starts findAvailablePort at config.port || PORT_RANGE_START
Build(r) ==
  /\ alive /\ pc[r] = "build"
  /\ workspaceDir(pid[r]) \in fsDirs
  /\ \E ok \in BOOLEAN :
       /\ images' = IF ok THEN images \cup {PreviewName(pid[r])} ELSE images
       /\ buildSt' = [buildSt EXCEPT ![r] = IF ok THEN "ok" ELSE "failed"]
       /\ pc' = [pc EXCEPT ![r] = AfterBuild(ok)]
       /\ err' = [err EXCEPT ![r] = IF ok THEN @ ELSE "build"]
       /\ msg' = [msg EXCEPT ![r] = IF ok THEN @ ELSE <<"Docker build failed: ", "stderr">>]
       /\ avail' = [avail EXCEPT ![r] = IF AfterBuild(ok) = "probe"
                                        THEN SeedPort(config(r).port) ELSE @]
  /\ lastStopped' = IF lastStopped = pid[r] THEN NoId ELSE lastStopped
  /\ UNCHANGED << pid, optType, optCfg, files, ptype, tries, probed, outcome, runSt,
                  containers, fsDirs, alive, wsVars, allVars, stopVars >>

\* lines 310-313: spawn with a cwd that does not exist emits 'error' on the child
\* process; nothing listens for it, so the exception is uncaught
BuildCrash(r) ==
  /\ alive /\ pc[r] = "build"
  /\ workspaceDir(pid[r]) \notin fsDirs
  /\ alive' = FALSE
  /\ UNCHANGED << reqVars, containers, images, fsDirs, stopVars, wsVars, allVars, lastStopped >>

\* lines 30-56: one bind attempt of findAvailablePort
Probe(r) ==
  /\ alive /\ pc[r] = "probe"
  /\ \E res \in ListenResults(avail[r]) :
       LET step == findAvailablePortStep(avail[r], res)
       IN /\ avail' = [avail EXCEPT ![r] = step.port]
          /\ pc' = [pc EXCEPT ![r] =
                      CASE step.kind = "resolve" -> "run"
                        [] step.kind = "retry" -> "probe"
                        [] step.kind = "reject" -> AfterRun(FALSE)]
          /\ runSt' = [runSt EXCEPT ![r] = IF step.kind = "reject" THEN "failed" ELSE @]
          /\ err' = [err EXCEPT ![r] = IF step.kind = "reject" THEN "run" ELSE @]
          /\ msg' = [msg EXCEPT ![r] = IF step.kind = "reject"
                                       THEN PortErrorMessage(res) ELSE @]
  /\ UNCHANGED << pid, optType, optCfg, files, ptype, tries, probed, outcome, buildSt,
                  containers, images, fsDirs, alive, wsVars, allVars, stopVars, lastStopped >>

\* lines 345-381: docker run exits 0 (the container runs) or not
Run(r) ==
  /\ alive /\ pc[r] = "run"
  /\ \E ok \in BOOLEAN :
       /\ ok => CanRun(PreviewName(pid[r]), PreviewName(pid[r]), avail[r])
       /\ containers' =
            IF ok THEN containers \cup
                       {Container(PreviewName(pid[r]), PreviewName(pid[r]), avail[r],
                                  InternalPort(config(r).port))}
            ELSE containers
       /\ runSt' = [runSt EXCEPT ![r] = IF ok THEN "ok" ELSE "failed"]
       /\ err' = [err EXCEPT ![r] = IF ok THEN @ ELSE "run"]
       /\ msg' = [msg EXCEPT ![r] = IF ok THEN @ ELSE <<"Container start failed: ", "stderr">>]
       /\ pc' = [pc EXCEPT ![r] = AfterRun(ok)]
       /\ allStopped' = IF ok THEN allStopped \ {pid[r]} ELSE allStopped
  /\ tries' = [tries EXCEPT ![r] = 0]
  /\ lastStopped' = IF lastStopped = pid[r] THEN NoId ELSE lastStopped
  /\ UNCHANGED << pid, optType, optCfg, files, ptype, avail, probed, outcome, buildSt,
                  images, fsDirs, alive, wsVars, allOut, stopVars >>

\* lines 385-403 and 541-567: one probe of checkContainerHealth and its delay;
\* the first 2xx, or the last failed attempt, ends the loop and the call returns
Health(r, limit) ==
  /\ alive /\ pc[r] = "health"
  /\ LET port == HealthPort(config(r), avail[r])
     IN /\ probed' = [probed EXCEPT ![r] = port]
        /\ \E resp \in ProbeResponses(port) :
             IF resp = "2xx"
             THEN /\ outcome' = [outcome EXCEPT ![r] = Resolved(r, TRUE)]
                  /\ pc' = [pc EXCEPT ![r] = AfterHealth(TRUE)]
                  /\ UNCHANGED << tries, err >>
             ELSE /\ tries' = [tries EXCEPT ![r] = @ + 1]
                  /\ IF HealthLoopGoesOn(tries[r] + 1, limit)
                     THEN UNCHANGED << pc, outcome, err >>
                     ELSE /\ pc' = [pc EXCEPT ![r] = AfterHealth(FALSE)]
                          /\ err' = [err EXCEPT ![r] =
                                       IF AfterHealth(FALSE) = "cleanup"
                                       THEN "health" ELSE @]
                          /\ outcome' = [outcome EXCEPT ![r] =
                                           IF AfterHealth(FALSE) = "done"
                                           THEN Resolved(r, FALSE) ELSE @]
  /\ UNCHANGED << pid, optType, optCfg, files, ptype, avail, msg, buildSt, runSt,
                  containers, images, fsDirs, alive, wsVars, allVars, stopVars, lastStopped >>

\* lines 569-578 with 424-431: the catch block calls stopPreview(projectId);
\* docker stop and docker rmi run synchronously.  If one throws, stopPreview
\* rejects, the catch block logs it and createProjectPreview rejects
Cleanup(r) ==
  /\ alive /\ pc[r] = "cleanup"
  /\ LET s == StopSync(pid[r])
     IN /\ containers' = s.containers
        /\ images' = s.images
        /\ IF s.threw
           THEN /\ outcome' = [outcome EXCEPT ![r] = Rejected(r, TRUE)]
                /\ pc' = [pc EXCEPT ![r] = "done"]
           ELSE /\ pc' = [pc EXCEPT ![r] = "cleanup_rm"]
                /\ UNCHANGED outcome
  /\ UNCHANGED << pid, optType, optCfg, files, ptype, avail, tries, probed, err, msg,
                  buildSt, runSt, fsDirs, alive, wsVars, allVars, stopVars, lastStopped >>

\* lines 434-437 and 577: fs.rm of the workspace, then the call rejects
CleanupRm(r) ==
  /\ alive /\ pc[r] = "cleanup_rm"
  /\ fsDirs' = RemoveWorkspace(pid[r], fsDirs)
  /\ outcome' = [outcome EXCEPT ![r] = Rejected(r, FALSE)]
  /\ pc' = [pc EXCEPT ![r] = "done"]
  /\ UNCHANGED << pid, optType, optCfg, files, ptype, avail, tries, probed, err, msg,
                  buildSt, runSt, containers, images, alive, wsVars, allVars, stopVars, lastStopped >>

\* the caller has the result or the error; the slot is free for the next call
Return(r) ==
  /\ alive /\ pc[r] = "done"
  /\ pc' = [pc EXCEPT ![r] = "idle"]
  /\ pid' = [pid EXCEPT ![r] = NoId]
  /\ optType' = [optType EXCEPT ![r] = "undefined"]
  /\ optCfg' = [optCfg EXCEPT ![r] = AbsentConfig]
  /\ files' = [files EXCEPT ![r] = <<>>]
  /\ ptype' = [ptype EXCEPT ![r] = "none"]
  /\ avail' = [avail EXCEPT ![r] = NoPort]
  /\ tries' = [tries EXCEPT ![r] = 0]
  /\ probed' = [probed EXCEPT ![r] = NoPort]
  /\ err' = [err EXCEPT ![r] = "none"]
  /\ msg' = [msg EXCEPT ![r] = NoText]
  /\ outcome' = [outcome EXCEPT ![r] = NoOutcome]
  /\ buildSt' = [buildSt EXCEPT ![r] = "none"]
  /\ runSt' = [runSt EXCEPT ![r] = "none"]
  /\ UNCHANGED << containers, images, fsDirs, alive, wsVars, allVars, stopVars, lastStopped >>


(***************************************************************************)
(* stopPreview(projectId), called by a client                              *)
(***************************************************************************)
\* `observe` says whether the specification keeps the call's answer, and the
\* history variables stopSecond and lastStopped, for the claims to read
\* lines 423-431 and 438-440: the synchronous part; a throw ends the call
StopCall(id, observe) ==
  /\ alive /\ stopPc = "idle"
  /\ LET s == StopSync(id)
     IN /\ containers' = s.containers
        /\ images' = s.images
        /\ stopPc' = IF ~s.threw THEN "rm" ELSE IF observe THEN "done" ELSE "idle"
        /\ stopOut' = IF s.threw /\ observe THEN "threw" ELSE "none"
        /\ stopId' = IF s.threw /\ ~observe THEN NoId ELSE id
  /\ stopSecond' = (observe /\ lastStopped = id)
  /\ UNCHANGED << reqVars, fsDirs, alive, wsVars, allVars, lastStopped >>

\* lines 434-437: fs.rm of the workspace, then the call returns success
StopRm(observe) ==
  /\ alive /\ stopPc = "rm"
  /\ fsDirs' = RemoveWorkspace(stopId, fsDirs)
  /\ stopOut' = IF observe THEN "ok" ELSE "none"
  /\ stopPc' = IF observe THEN "done" ELSE "idle"
  /\ stopId' = IF observe THEN stopId ELSE NoId
  /\ lastStopped' = IF observe THEN stopId ELSE lastStopped
  /\ UNCHANGED << reqVars, containers, images, alive, wsVars, allVars, stopSecond >>

\* the client has the answer
StopReturn ==
  /\ alive /\ stopPc = "done"
  /\ stopPc' = "idle"
  /\ stopId' = NoId
  /\ stopOut' = "none"
  /\ stopSecond' = FALSE
  /\ UNCHANGED << reqVars, containers, images, fsDirs, alive, wsVars, allVars, lastStopped >>

(***************************************************************************)
(* stopAllPreviews()                                                       *)
(***************************************************************************)
\* docker ps --filter "name=preview-": the running containers with the prefix
PreviewContainers == {c \in containers : Len(c.name) > 0 /\ c.name[1] = "preview-"}

\* the orders docker ps can list the names of S in
Orderings(S) ==
  {o \in [1..Cardinality(S) -> S] : \A i, j \in 1..Cardinality(S) : o[i] = o[j] => i = j}

\* what the two execSync of one round of the loop do: both exit 0, docker
\* stop exits non-zero, or docker rmi does
StopFates == {"ok", "stop", "rmi"}

\* the state of the loop of lines 450-463 before its first round
StartOfLoop ==
  [stopped |-> <<>>, attempted |-> {}, stopOk |-> {}, rmiOk |-> {},
   containers |-> containers, images |-> images]

\* a loop whose push comes before the docker rmi
RECURSIVE stopAllLoop_PushBeforeRmi(_, _, _)
stopAllLoop_PushBeforeRmi(containerNames, fate, acc) ==
  IF containerNames = <<>> THEN acc
  ELSE LET containerName == Head(containerNames)
           projectId == StripPrefix(containerName)
           stopOk == fate[containerName] # "stop"
           rmiOk == stopOk /\ fate[containerName] = "ok"
                           /\ (<<"preview-">> \o projectId) \in acc.images
       IN stopAllLoop_PushBeforeRmi(Tail(containerNames), fate,
            [stopped |-> IF stopOk THEN Append(acc.stopped, projectId[1]) ELSE acc.stopped,
             attempted |-> acc.attempted \cup {containerName},
             stopOk |-> IF stopOk THEN acc.stopOk \cup {containerName} ELSE acc.stopOk,
             rmiOk |-> IF rmiOk THEN acc.rmiOk \cup {containerName} ELSE acc.rmiOk,
             containers |-> IF stopOk THEN {c \in acc.containers : c.name # containerName}
                            ELSE acc.containers,
             images |-> IF rmiOk THEN acc.images \ {<<"preview-">> \o projectId}
                        ELSE acc.images])

\* lines 450-463: for each listed name docker stop, then docker rmi of
\* preview-<projectId>, then stopped.push(projectId); an execSync that exits
\* non-zero throws into the catch of the round, which goes on with the next
\* name.  attempted, stopOk and rmiOk record the commands that ran and exited 0.
RECURSIVE stopAllLoop(_, _, _)
stopAllLoop(containerNames, fate, acc) ==
  IF containerNames = <<>> THEN acc
  ELSE LET containerName == Head(containerNames)
           projectId == StripPrefix(containerName)
           stopOk == fate[containerName] # "stop"
           rmiOk == stopOk /\ fate[containerName] = "ok"
                           /\ (<<"preview-">> \o projectId) \in acc.images
       IN stopAllLoop(Tail(containerNames), fate,
            [stopped |-> IF rmiOk THEN Append(acc.stopped, projectId[1]) ELSE acc.stopped,
             attempted |-> acc.attempted \cup {containerName},
             stopOk |-> IF stopOk THEN acc.stopOk \cup {containerName} ELSE acc.stopOk,
             rmiOk |-> IF rmiOk THEN acc.rmiOk \cup {containerName} ELSE acc.rmiOk,
             containers |-> IF stopOk THEN {c \in acc.containers : c.name # containerName}
                            ELSE acc.containers,
             images |-> IF rmiOk THEN acc.images \ {<<"preview-">> \o projectId}
                        ELSE acc.images])

\* lines 444-473: the containers docker ps lists are stopped one after the
\* other and the call returns success with the stopped list; all of it is
\* execSync, so no other handler runs in between.  `fates` are the ways a
\* round can go in the specification, and `observe` says whether it keeps the
\* answer and the history variable allStopped.
StopAll(observe, fates) ==
  /\ alive /\ allOut = NoAll
  /\ PreviewContainers # {}
  /\ \E containerNames \in Orderings({c.name : c \in PreviewContainers}) :
       \E fate \in [{c.name : c \in PreviewContainers} -> fates] :
         LET loop == stopAllLoop(containerNames, fate, StartOfLoop)
         IN /\ containers' = loop.containers
            /\ images' = loop.images
            /\ allOut' = IF observe
                          THEN [success |-> TRUE, stopped |-> loop.stopped,
                                listed |-> containerNames, attempted |-> loop.attempted,
                                stopOk |-> loop.stopOk, rmiOk |-> loop.rmiOk]
                          ELSE NoAll
            /\ allStopped' = IF observe
                              THEN allStopped \cup {StripPrefix(n)[1] : n \in loop.stopOk}
                              ELSE allStopped
  /\ UNCHANGED << reqVars, fsDirs, alive, wsVars, stopVars, lastStopped >>

\* the client has the answer
StopAllReturn ==
  /\ alive /\ allOut # NoAll
  /\ allOut' = NoAll
  /\ UNCHANGED << reqVars, containers, images, fsDirs, alive, wsVars, stopVars,
                  lastStopped, allStopped >>

(***************************************************************************)
(* The environment                                                         *)
(***************************************************************************)
\* the process of a container exits by itself; --rm removes the container
ContainerExits ==
  /\ \E c \in containers : containers' = containers \ {c}
  /\ UNCHANGED << reqVars, images, fsDirs, alive, wsVars, allVars, stopVars, lastStopped >>

(***************************************************************************)
(* Spec: the handlers run one after the other (a call is started only when *)
(* no other is in flight), with the full set of options and the retry      *)
(* count of the code.                                                      *)
(***************************************************************************)
Quiet == stopPc = "idle" /\ \A r \in Req : pc[r] = "idle"

Next ==
  \/ Quiet /\ CreateStart(1, OptTypes, DockerConfigs)
  \/ FetchOk(1, FileLists)
  \/ FetchFail(1)
  \/ WorkspaceOk(1)
  \/ WorkspaceFail(1)
  \/ Dockerfile(1)
  \/ Build(1)
  \/ Probe(1)
  \/ Run(1)
  \/ Health(1, maxRetries)
  \/ Cleanup(1)
  \/ CleanupRm(1)
  \/ Return(1)
  \/ \E id \in IDS : Quiet /\ StopCall(id, TRUE)
  \/ StopRm(TRUE)
  \/ StopReturn
  \/ Quiet /\ StopAll(FALSE, {"ok"})
  \/ ContainerExits

Spec == Init /\ [][Next]_vars

\* SpecFair: Spec with a poll that goes on: every fetch of checkContainerHealth
\* settles and every setTimeout fires
SpecFair == Init /\ [][Next]_vars /\ WF_vars(Health(1, maxRetries))

(***************************************************************************)
(* SpecConc: MaxRequests calls and a client's stopPreview interleave at    *)
(* every await.  The options are left out, the health poll is cut to       *)
(* MaxProbes attempts and containers run until they are stopped.           *)
(***************************************************************************)
MaxProbes == 1

NextConc ==
  \/ \E r \in Req : CreateStart(r, {"undefined"}, {AbsentConfig})
  \/ \E r \in Req : FetchOk(r, ConcFileLists)
  \/ \E r \in Req : FetchFail(r)
  \/ \E r \in Req : WorkspaceOk(r)
  \/ \E r \in Req : WorkspaceFail(r)
  \/ \E r \in Req : Dockerfile(r)
  \/ \E r \in Req : Build(r)
  \/ \E r \in Req : BuildCrash(r)
  \/ \E r \in Req : Probe(r)
  \/ \E r \in Req : Run(r)
  \/ \E r \in Req : Health(r, MaxProbes)
  \/ \E r \in Req : Cleanup(r)
  \/ \E r \in Req : CleanupRm(r)
  \/ \E r \in Req : Return(r)
  \/ \E id \in IDS : StopCall(id, FALSE)
  \/ StopRm(FALSE)
  \/ StopAll(FALSE, {"ok"})


SpecConc == Init /\ [][NextConc]_vars

(***************************************************************************)
(* SpecStopAll: calls for nodejs previews, stopPreview and stopAllPreviews *)
(* one after the other; each docker stop and docker rmi of stopAllPreviews *)
(* can exit non-zero, and its answer is kept until the client has it       *)
(***************************************************************************)
NextStopAll ==
  \/ Quiet /\ allOut = NoAll /\ CreateStart(1, {"nodejs"}, {AbsentConfig})
  \/ FetchOk(1, FileLists)
  \/ WorkspaceOk(1)
  \/ Dockerfile(1)
  \/ Build(1)
  \/ Probe(1)
  \/ Run(1)
  \/ Health(1, MaxProbes)
  \/ Cleanup(1)
  \/ CleanupRm(1)
  \/ Return(1)
  \/ \E id \in IDS : Quiet /\ StopCall(id, TRUE)
  \/ StopRm(TRUE)
  \/ StopReturn
  \/ Quiet /\ StopAll(TRUE, StopFates)
  \/ StopAllReturn
  \/ ContainerExits

SpecStopAll == Init /\ [][NextStopAll]_vars

(***************************************************************************)
(* SpecDetect: one call without options up to line 516, over every file    *)
(* list of DetectLists: what detectProjectType returns is in ptype          *)
(***************************************************************************)
NextDetect ==
  \/ CreateStart(1, {"undefined"}, {AbsentConfig})
  \/ FetchOk(1, DetectLists)

SpecDetect == Init /\ [][NextDetect]_vars


(***************************************************************************)
(* SpecPorts: the findAvailablePort of one call, from every start of       *)
(* ScanStarts (the port of the call's dockerConfig), on a host where other *)
(* containers publish any of the ports of ScanPorts                        *)
(***************************************************************************)
ScanPorts == {80, 81, 8999, 9000, 9001}
ScanStarts == {80, 8999, 9000, 9001}

\* a container of the host that is not a preview
OtherContainer(port) == Container(<<"other-", port>>, <<"other-image">>, port, 80)

InitPorts ==
  \E start \in ScanStarts, bound \in SUBSET ScanPorts :
    /\ pc = [r \in Req |-> IF r = 1 THEN "probe" ELSE "idle"]
    /\ pid = [r \in Req |-> IF r = 1 THEN 1 ELSE NoId]
    /\ optType = [r \in Req |-> IF r = 1 THEN "nodejs" ELSE "undefined"]
    /\ optCfg = [r \in Req |-> IF r = 1 THEN DockerConfig(NoText, start)
                                ELSE AbsentConfig]
    /\ files = [r \in Req |-> <<>>]
    /\ ptype = [r \in Req |-> IF r = 1 THEN "nodejs" ELSE "none"]
    /\ avail = [r \in Req |-> IF r = 1 THEN SeedPort(start) ELSE NoPort]
    /\ tries = [r \in Req |-> 0]
    /\ probed = [r \in Req |-> NoPort]
    /\ err = [r \in Req |-> "none"]
    /\ msg = [r \in Req |-> NoText]
    /\ outcome = [r \in Req |-> NoOutcome]
    /\ buildSt = [r \in Req |-> IF r = 1 THEN "ok" ELSE "none"]
    /\ runSt = [r \in Req |-> "none"]
    /\ containers = {OtherContainer(p) : p \in bound}
    /\ images = {PreviewName(1), <<"other-image">>}
    /\ fsDirs = {workspaceDir(1)}
    /\ alive = TRUE
    /\ stopPc = "idle"
    /\ stopId = NoId
    /\ stopOut = "none"
    /\ stopSecond = FALSE
    /\ lastStopped = NoId
    /\ wsPc = "idle"
    /\ wsId = NoId
    /\ wsFiles = <<>>
    /\ wsIdx = 0
    /\ fsFiles = {}
    /\ allOut = NoAll
    /\ allStopped = {}

NextPorts == Probe(1)

SpecPorts == InitPorts /\ [][NextPorts]_vars

(***************************************************************************)
(* createProjectWorkspace(projectId, files) followed file by file           *)
(*                                                                         *)
(* Spec and SpecConc keep the workspace directories only; here every mkdir *)
(* and writeFile of the loop is a step.  A path is the sequence of its     *)
(* segments, a content the sequence of its characters, a file on disk a    *)
(* path with bytes.                                                        *)
(***************************************************************************)
MaxWsFiles == 2

\* the UTF-8 bytes of a character; a lone surrogate is written as U+FFFD
Utf8Bytes(ch) ==
  CASE ch = "a" -> <<97>>
    [] ch = "e-acute" -> <<195, 169>>
    [] ch = "U+FFFD" -> <<239, 191, 189>>
    [] ch = "lone surrogate" -> <<239, 191, 189>>

\* writeFile(..., 'utf-8') encodes the string
RECURSIVE Utf8Encode(_)
Utf8Encode(str) ==
  IF str = <<>> THEN <<>> ELSE Utf8Bytes(Head(str)) \o Utf8Encode(Tail(str))

\* toString('utf-8') decodes bytes; a byte that starts no sequence becomes U+FFFD
RECURSIVE Utf8Decode(_)
Utf8Decode(bytes) ==
  IF bytes = <<>> THEN <<>>
  ELSE IF bytes[1] = 97 THEN <<"a">> \o Utf8Decode(Tail(bytes))
  ELSE IF Len(bytes) >= 2 /\ bytes[1] = 195 /\ bytes[2] = 169
       THEN <<"e-acute">> \o Utf8Decode(SubSeq(bytes, 3, Len(bytes)))
  ELSE IF Len(bytes) >= 3 /\ bytes[1] = 239 /\ bytes[2] = 191 /\ bytes[3] = 189
       THEN <<"U+FFFD">> \o Utf8Decode(SubSeq(bytes, 4, Len(bytes)))
  ELSE <<"U+FFFD">> \o Utf8Decode(Tail(bytes))

\* the contents fetchRepositoryFiles produces: decoded blobs, one of them not
\* valid UTF-8
WsBlobs == { <<195, 169, 97>>, <<195>> }
WsContents == {Utf8Decode(b) : b \in WsBlobs}

\* item.path of the GitHub contents API: repository-relative, normalized
WsPaths == { <<"src">>, <<"src", "main.js">>, <<"lib", "main.js">>, <<"index.html">> }

PathFile(path, content) == [path |-> path, content |-> content]

WsLists ==
  UNION {[1..n -> {PathFile(p, c) : p \in WsPaths, c \in WsContents}] : n \in 0..MaxWsFiles}

\* path.join normalizes the segments it appends: "." and "" are dropped, ".."
\* removes the segment before it
RECURSIVE NormalizeFrom(_, _)
NormalizeFrom(acc, segs) ==
  IF segs = <<>> THEN acc
  ELSE IF Head(segs) \in {".", ""} THEN NormalizeFrom(acc, Tail(segs))
  ELSE IF Head(segs) = ".."
       THEN NormalizeFrom(IF acc = <<>> THEN acc ELSE SubSeq(acc, 1, Len(acc) - 1),
                          Tail(segs))
  ELSE NormalizeFrom(Append(acc, Head(segs)), Tail(segs))

\* a join that keeps the base name of the file only
pathJoin_BaseName(base, rel) == Append(base, rel[Len(rel)])

pathJoin(base, rel) == NormalizeFrom(base, rel)

dirname(path) == SubSeq(path, 1, Len(path) - 1)

\* fs.mkdir(dir, { recursive: true }): dir and its ancestors under previews/;
\* it fails when one of them is a file
CanMkdir(dir, diskFiles) ==
  \A n \in 2..Len(dir) : SubSeq(dir, 1, n) \notin {f.path : f \in diskFiles}
mkdirRecursive(dir, dirs) == dirs \cup {SubSeq(dir, 1, n) : n \in 2..Len(dir)}

\* fs.writeFile(filePath, content, 'utf-8'): creates or replaces the file; it
\* fails on a directory
CanWrite(filePath, dirs) == filePath \notin dirs /\ dirname(filePath) \in dirs
writeFile(filePath, content, diskFiles) ==
  {f \in diskFiles : f.path # filePath}
    \cup {[path |-> filePath, bytes |-> Utf8Encode(content)]}

\* the call is made
WsCall ==
  /\ alive /\ wsPc = "idle"
  /\ \E id \in IDS, fl \in WsLists : wsId' = id /\ wsFiles' = fl
  /\ wsPc' = "mkdir"
  /\ UNCHANGED << reqVars, containers, images, fsDirs, alive, stopVars, lastStopped, allVars,
                  wsIdx, fsFiles >>

\* line 275: mkdir of the workspace directory, which can fail
WsMkdir ==
  /\ wsPc = "mkdir"
  /\ \E ok \in BOOLEAN :
       /\ ok => CanMkdir(workspaceDir(wsId), fsFiles)
       /\ fsDirs' = IF ok THEN mkdirRecursive(workspaceDir(wsId), fsDirs) ELSE fsDirs
       /\ wsPc' = IF ok THEN "loop" ELSE "failed"
  /\ wsIdx' = 1
  /\ UNCHANGED << reqVars, containers, images, alive, stopVars, lastStopped, allVars,
                  wsId, wsFiles, fsFiles >>

\* lines 278-288: one round of the loop, mkdir of the file's directory and
\* writeFile; either can fail, and what was made before stays
WsWrite ==
  /\ wsPc = "loop" /\ wsIdx <= Len(wsFiles)
  /\ LET filePath == pathJoin(workspaceDir(wsId), wsFiles[wsIdx].path)
         fileDir == dirname(filePath)
         made == mkdirRecursive(fileDir, fsDirs)
     IN \E res \in {"written", "mkdir failed", "write failed"} :
          /\ res # "mkdir failed" => CanMkdir(fileDir, fsFiles)
          /\ res = "written" => CanWrite(filePath, made)
          /\ fsDirs' = IF res = "mkdir failed" THEN fsDirs ELSE made
          /\ fsFiles' = IF res = "written"
                        THEN writeFile(filePath, wsFiles[wsIdx].content, fsFiles)
                        ELSE fsFiles
          /\ wsPc' = IF res = "written" THEN "loop" ELSE "failed"
          /\ wsIdx' = IF res = "written" THEN wsIdx + 1 ELSE wsIdx
  /\ UNCHANGED << reqVars, containers, images, alive, stopVars, lastStopped, allVars,
                  wsId, wsFiles >>

\* line 289: the loop is over, the call resolves with workspaceDir
WsReturn ==
  /\ wsPc = "loop" /\ wsIdx > Len(wsFiles)
  /\ wsPc' = "ok"
  /\ UNCHANGED << reqVars, containers, images, fsDirs, alive, stopVars, lastStopped, allVars,
                  wsId, wsFiles, wsIdx, fsFiles >>

\* the caller has the directory or the error
WsDone ==
  /\ wsPc \in {"ok", "failed"}
  /\ wsPc' = "idle" /\ wsId' = NoId /\ wsFiles' = <<>> /\ wsIdx' = 0
  /\ UNCHANGED << reqVars, containers, images, fsDirs, alive, stopVars, lastStopped, allVars,
                  fsFiles >>

(***************************************************************************)
(* SpecWorkspace: createProjectWorkspace calls one after the other, over   *)
(* what earlier calls left under previews/                                 *)
(***************************************************************************)
NextWorkspace ==
  \/ WsCall
  \/ WsMkdir
  \/ WsWrite
  \/ WsReturn
  \/ WsDone

SpecWorkspace == Init /\ [][NextWorkspace]_vars

(***************************************************************************)
(* listActivePreviews(): docker ps --filter "name=preview-" with the name  *)
(* and the published port of every running preview container               *)
(***************************************************************************)
\* the Ports column of docker ps, "0.0.0.0:<host>-><internal>/tcp"
PortsColumn(c) == <<"0.0.0.0:", c.hostPort, "->", c.internalPort, "/tcp">>

\* ports.match(/:(\d+)->/)?.[1], then parseInt
HostPortOf(ports) == IF Len(ports) >= 3 /\ ports[3] = "->" THEN ports[2] ELSE NoPort

listActivePreviews ==
  { [projectId |-> StripPrefix(c.name)[1], containerName |-> c.name,
     port |-> HostPortOf(PortsColumn(c))] : c \in PreviewContainers }

(***************************************************************************)
(* Claims                                                                  *)
(***************************************************************************)
\* a health probe of call r has been sent
ProbeIssued(r) == tries[r] > 0 \/ outcome[r].kind = "resolved"

ContainersOf(id) == {c \in containers : c.name = PreviewName(id)}
WorkspacesOf(id) == {d \in fsDirs : d[1] = "previews" /\ d[2] = id}

\* C1: when buildDockerImage or runDockerContainer rejects, the workspace
\* directory of the request is gone when createProjectPreview rejects.
C1_WorkspaceRemovedOnFailure ==
  \A r \in Req :
    (pc[r] = "done" /\ outcome[r].kind = "rejected" /\ err[r] \in {"build", "run"})
      => workspaceDir(pid[r]) \notin fsDirs

\* C2: a stopPreview(id) that follows a successful stopPreview(id) does not
\* throw and returns success.
C2_SecondStopSucceeds ==
  (stopPc = "done" /\ stopSecond) => stopOut = "ok"

\* C3: every preview identifier has at most one container named preview-<id>
\* and at most one workspace directory under previews/.
C3_AtMostOnePerId ==
  \A id \in IDS : /\ Cardinality(ContainersOf(id)) <= 1
                  /\ Cardinality(WorkspacesOf(id)) <= 1

\* two calls took the same identifier; the first one's container runs and the
\* second one's docker run was refused
C3_Witness ==
  \E r1, r2 \in Req :
    /\ r1 # r2 /\ pid[r1] = pid[r2] /\ pid[r1] # NoId
    /\ runSt[r1] = "ok" /\ runSt[r2] = "failed" /\ pc[r2] = "cleanup"
    /\ ContainersOf(pid[r1]) # {} /\ WorkspacesOf(pid[r1]) # {}

\* call r holds the port avail[r]: findAvailablePort has returned it and the
\* container is about to be started on it, or runs on it
HoldsPort(r) ==
  \/ pc[r] = "run"
  \/ /\ runSt[r] = "ok"
     /\ \E c \in ContainersOf(pid[r]) : c.hostPort = avail[r]

\* C4 as stated: a port handed to a request whose container runs or is about
\* to be started is not handed to another request.
C4_PortNeverShared ==
  \A r1, r2 \in Req :
    (r1 # r2 /\ HoldsPort(r1) /\ HoldsPort(r2)) => avail[r1] # avail[r2]

\* C4 as amended: findAvailablePort never returns a port on which a container
\* is running at the time of the probe, and no two running containers are
\* published on the same host port.
C4_RunningPortNotReassigned ==
  [][ /\ \A r \in Req :
           (pc[r] = "probe" /\ pc'[r] = "run") => avail'[r] \notin BoundPorts
      /\ \A c1, c2 \in containers' :
           c1.hostPort = c2.hostPort => c1 = c2 ]_vars

\* a container runs on the seed port and a later request was handed the next
C4_Witness ==
  \E r \in Req : /\ pc[r] = "run"
                 /\ avail[r] - 1 \in BoundPorts
                 /\ avail[r] \notin BoundPorts

\* C5: the port the run phase gets from findAvailablePort is in
\* [PORT_RANGE_START, PORT_RANGE_END].
C5_PortInRange ==
  \A r \in Req :
    pc[r] = "run" => avail[r] \in PORT_RANGE_START..PORT_RANGE_END

\* C6: the run phase starts only after a successful build, a health probe is
\* sent only after a successful run; no run after a failed build, no probe
\* after a failed run.
C6_PhaseOrder ==
  \A r \in Req :
    /\ (pc[r] \in {"probe", "run"} \/ runSt[r] # "none") => buildSt[r] = "ok"
    /\ (pc[r] = "health" \/ ProbeIssued(r)) => (buildSt[r] = "ok" /\ runSt[r] = "ok")

\* a probe has been sent, after a build and a run that succeeded
C6_Witness ==
  \E r \in Req : tries[r] > 0 /\ buildSt[r] = "ok" /\ runSt[r] = "ok"

\* C7: when the last health probe fails too, createProjectPreview resolves
\* with healthy false and leaves the container, the image and the workspace.
C7_UnhealthyResolves ==
  [][ \A r \in Req :
        (pc[r] = "health" /\ tries'[r] = maxRetries) =>
          /\ pc'[r] = "done"
          /\ outcome'[r].kind = "resolved"
          /\ outcome'[r].healthy = FALSE
          /\ containers' = containers /\ images' = images /\ fsDirs' = fsDirs ]_vars

\* every probe failed; the call resolved unhealthy and its container runs
C7_Witness ==
  \E r \in Req : /\ pc[r] = "done" /\ tries[r] = maxRetries
                 /\ outcome[r].kind = "resolved" /\ ~outcome[r].healthy
                 /\ ContainersOf(pid[r]) # {}
                 /\ PreviewName(pid[r]) \in images
                 /\ workspaceDir(pid[r]) \in fsDirs

\* C8: the health probes of a preview of any archetype go to the host port
\* the run phase allocated.
C8_ProbeAtAllocatedPort ==
  \A r \in Req :
    (ptype[r] \in Archetypes /\ runSt[r] = "ok" /\ ProbeIssued(r))
      => probed[r] = avail[r]

\* C9: the port of the result of a preview of any archetype is the host port
\* the container is published on, the one listActivePreviews reports for it.
C9_ResultPortIsPublished ==
  \A r \in Req :
    (pc[r] = "done" /\ outcome[r].kind = "resolved" /\ ptype[r] \in Archetypes) =>
      /\ outcome[r].port = avail[r]
      /\ \A p \in listActivePreviews :
           p.containerName = outcome[r].containerName => p.port = outcome[r].port

\* C10: the container is published with internal port dockerConfig.port when
\* the caller gives one, and with the template's port when not.
C10_InternalPort ==
  [][ \A r \in Req :
        (pc[r] = "run" /\ runSt'[r] = "ok" /\ ptype[r] \in Archetypes) =>
          \E c \in containers' \ containers :
            /\ c.hostPort = avail[r]
            /\ c.internalPort = IF optCfg[r].port # NoPort THEN optCfg[r].port
                                ELSE PROJECT_CONFIGS[ptype[r]].port ]_vars

\* a nodejs preview called with port 4000 runs, published to 4000
C10_Witness ==
  \E r \in Req :
    /\ ptype[r] = "nodejs" /\ optCfg[r].port = 4000 /\ runSt[r] = "ok"
    /\ \E c \in ContainersOf(pid[r]) : c.internalPort = 4000

\* C11: when fetchRepositoryFiles rejects, createProjectPreview rejects, and no
\* step of that call, before or after the failure, creates a workspace
\* directory, builds an image or starts a container.
C11_FetchFailureCreatesNothing ==
  [][ \A r \in Req :
        (pc'[r] = "fetch" \/ err'[r] = "fetch") =>
          /\ containers' \subseteq containers
          /\ images' \subseteq images
          /\ fsDirs' \subseteq fsDirs
          /\ buildSt'[r] = "none" /\ runSt'[r] = "none"
          /\ pc'[r] \in {"fetch", "cleanup", "cleanup_rm", "done"}
          /\ pc'[r] = "done" =>
                (outcome'[r].kind = "rejected" /\ outcome'[r].phase = "fetch") ]_vars

\* the call was rejected for a fetch failure and left previews/ and the
\* runtime without anything of its identifier
C11_Witness ==
  \E r \in Req :
    /\ pc[r] = "done" /\ err[r] = "fetch" /\ outcome[r].kind = "rejected"
    /\ ContainersOf(pid[r]) = {} /\ PreviewName(pid[r]) \notin images
    /\ workspaceDir(pid[r]) \notin fsDirs

\* C12: for a projectType outside the seven archetypes, whatever the override
\* object, generateDockerfile fails: the call never gets past the Dockerfile
\* step, so no Dockerfile is written and no build is started.
C12_UnknownArchetypeRejected ==
  \A r \in Req :
    (ptype[r] # "none" /\ ptype[r] \notin Archetypes) =>
      /\ pc[r] \notin {"build", "probe", "run", "health"}
      /\ buildSt[r] = "none"

\* C13: every stopPreview(id) call, a client's or the one of the failure path
\* of createProjectPreview, attempts the stop, the image removal and the
\* workspace deletion: when it is over the workspace is deleted, and a failed
\* stop or image removal is not raised to the caller.
C13_TeardownAttemptsAllSteps ==
  /\ stopPc = "done" => (stopOut = "ok" /\ workspaceDir(stopId) \notin fsDirs)
  /\ \A r \in Req :
       (pc[r] = "done" /\ outcome[r].kind = "rejected")
         => workspaceDir(pid[r]) \notin fsDirs

\* C14: when createProjectPreview rejects because the run phase failed after a
\* successful build, no container preview-<id>, no image preview-<id> and no
\* workspace previews/<id> is left.
C14_NoOrphansAfterFailedRun ==
  \A r \in Req :
    (pc[r] = "done" /\ outcome[r].kind = "rejected"
       /\ buildSt[r] = "ok" /\ runSt[r] = "failed") =>
      /\ ContainersOf(pid[r]) = {}
      /\ PreviewName(pid[r]) \notin images
      /\ WorkspacesOf(pid[r]) = {}

(***************************************************************************)
(* Claims about detectProjectType.  The claims name files as a reader of   *)
(* the file list does: a file "named package.json" is one whose name is    *)
(* package.json up to the case of its letters.                             *)
(***************************************************************************)
\* call r took no projectType option and is past line 516: ptype[r] is what
\* detectProjectType returned for files[r]
Detected(r) == pc[r] = "workspace" /\ optType[r] = "undefined"

\* the positions of the files with that name
FilesNamed(fl, stem, ext) ==
  {i \in 1..Len(fl) : toLowerCase(fl[i].name) = FileName(stem, ext, FALSE)}

IsFirst(i, positions) == i \in positions /\ \A j \in positions : i <= j

HasViteConfigFile(fl) ==
  \E ext \in {"js", "ts", "mjs"} : FilesNamed(fl, "vite.config", ext) # {}

\* the combined dependencies of a manifest that parses
Parses(f) == f.content.kind = "manifest"
CombinedDeps(f) == f.content.deps \cup f.content.devDeps
HasReactDep(f) == {"react", "react-dom"} \cap CombinedDeps(f) # {}

\* C15 as stated: a list with a package.json and a Vite config file, whose
\* combined dependencies include react or react-dom but not next, is detected
\* as react.
C15_ViteReactIsReact ==
  \A r \in Req :
    (/\ Detected(r)
     /\ HasViteConfigFile(files[r])
     /\ \E i \in FilesNamed(files[r], "package", "json") :
          /\ Parses(files[r][i]) /\ HasReactDep(files[r][i])
          /\ "next" \notin CombinedDeps(files[r][i]))
      => ptype[r] = "react"

\* C15 as amended: a list with a Vite config file, whose first package.json
\* parses and has react or react-dom but neither next nor @next/core among
\* its combined dependencies, is detected as react, also with vue or @vue/cli
\* among them.
C15_ViteReactFirstManifest ==
  \A r \in Req :
    (/\ Detected(r)
     /\ HasViteConfigFile(files[r])
     /\ \E i \in 1..Len(files[r]) :
          /\ IsFirst(i, FilesNamed(files[r], "package", "json"))
          /\ Parses(files[r][i]) /\ HasReactDep(files[r][i])
          /\ {"next", "@next/core"} \cap CombinedDeps(files[r][i]) = {})
      => ptype[r] = "react"

\* a list with a Vite config file and a manifest with react and a Vue
\* dependency was detected as react
C15_Witness ==
  \E r \in Req :
    /\ Detected(r) /\ ptype[r] = "react" /\ HasViteConfigFile(files[r])
    /\ \E i \in 1..Len(files[r]) :
         /\ IsFirst(i, FilesNamed(files[r], "package", "json"))
         /\ HasReactDep(files[r][i])
         /\ {"vue", "@vue/cli"} \cap CombinedDeps(files[r][i]) # {}

\* C16: a list with no package.json, no requirements.txt, no file with the
\* suffix .py and no index.html, the empty list included, is detected as
\* static.
C16_FallbackIsStatic ==
  \A r \in Req :
    (/\ Detected(r)
     /\ FilesNamed(files[r], "package", "json") = {}
     /\ FilesNamed(files[r], "requirements", "txt") = {}
     /\ FilesNamed(files[r], "index", "html") = {}
     /\ \A i \in 1..Len(files[r]) : files[r][i].name.ext # "py")
      => ptype[r] = "static"

\* a list of a Vite config file and a readme, and nothing else, was detected
\* as static
C16_Witness ==
  \E r \in Req :
    /\ Detected(r) /\ ptype[r] = "static" /\ Len(files[r]) = 2
    /\ HasViteConfigFile(files[r])
    /\ FilesNamed(files[r], "readme", "md") # {}

\* the content is the empty string, or JSON.parse rejects it
Unparsable(f) == f.content.kind \in {"empty", "invalid"}

\* C17 as stated: a list with a package.json whose content is empty or not
\* valid JSON is detected as nodejs, whatever other files it has.
C17_BadManifestIsNodejs ==
  \A r \in Req :
    (/\ Detected(r)
     /\ \E i \in FilesNamed(files[r], "package", "json") : Unparsable(files[r][i]))
      => ptype[r] = "nodejs"

\* C17 as amended: a list whose first package.json has a content that is
\* empty or not valid JSON is detected as nodejs, whatever other files it has,
\* further package.json files included.
C17_FirstBadManifestIsNodejs ==
  \A r \in Req :
    (/\ Detected(r)
     /\ \E i \in 1..Len(files[r]) :
          /\ IsFirst(i, FilesNamed(files[r], "package", "json"))
          /\ Unparsable(files[r][i]))
      => ptype[r] = "nodejs"

\* a list of a package.json that does not parse, a Vite config file and an
\* app.py with the Flask marker was detected as nodejs
C17_Witness ==
  \E r \in Req :
    /\ Detected(r) /\ ptype[r] = "nodejs"
    /\ \E i \in FilesNamed(files[r], "package", "json") :
         files[r][i].content.kind = "invalid"
    /\ HasViteConfigFile(files[r])
    /\ \E i \in FilesNamed(files[r], "app", "py") : files[r][i].content.flask

\* the reference order of C18 on a list: the first package.json decides when
\* there is one (a Next.js dependency as C15 amends it), then the Python
\* markers, then index.html, then the catch-all
ReferenceTag(fl) ==
  LET manifests == FilesNamed(fl, "package", "json")
      f == fl[CHOOSE i \in manifests : IsFirst(i, manifests)]
      d == CombinedDeps(f)
      pythonMarkers ==
        \/ FilesNamed(fl, "requirements", "txt") # {}
        \/ \E i \in 1..Len(fl) : fl[i].name.ext = "py"
  IN IF manifests # {}
     THEN IF Unparsable(f) THEN "nodejs"
          ELSE IF {"next", "@next/core"} \cap d # {} THEN "nextjs"
          ELSE IF HasViteConfigFile(fl) /\ HasReactDep(f) THEN "react"
          ELSE IF "vite" \in d /\ HasReactDep(f) THEN "react"
          ELSE IF {"vue", "@vue/cli"} \cap d # {} THEN "vue"
          ELSE "nodejs"
     ELSE IF pythonMarkers
          THEN IF \E i \in FilesNamed(fl, "app", "py") : fl[i].content.flask
               THEN "flask" ELSE "python"
          ELSE "static"

\* C18: detectProjectType returns one of the seven tags for every list, and
\* the tag is the one of the reference order: manifest (next, Vite config with
\* react, vite with react, vue, express or fastify, nodejs), then Python
\* markers (flask if an app.py file has the Flask marker, else python), then
\* index.html, then static.
C18_DetectionIsReferenceOrder ==
  \A r \in Req :
    Detected(r) => (ptype[r] \in Archetypes /\ ptype[r] = ReferenceTag(files[r]))

\* reading a file of the disk as text
readFile(filePath, diskFiles) ==
  Utf8Decode((CHOOSE f \in diskFiles : f.path = filePath).bytes)

DistinctPaths(fl) ==
  \A i, j \in 1..Len(fl) : fl[i].path = fl[j].path => i = j

\* C19: after createProjectWorkspace(id, files) has succeeded for files with
\* pairwise distinct paths, the file previews/<id>/<path> of every file exists
\* and reads as its content, and every directory of the path exists under
\* the workspace root.
C19_WorkspaceRoundTrip ==
  (wsPc = "ok" /\ DistinctPaths(wsFiles)) =>
    \A i \in 1..Len(wsFiles) :
      LET filePath == workspaceDir(wsId) \o wsFiles[i].path
      IN /\ \E f \in fsFiles : f.path = filePath
         /\ readFile(filePath, fsFiles) = wsFiles[i].content
         /\ \A n \in 2..(Len(filePath) - 1) : SubSeq(filePath, 1, n) \in fsDirs

\* two files of the same name in two directories, with different contents,
\* were written into a workspace in which an earlier call had left a file
C19_Witness ==
  /\ wsPc = "ok" /\ Len(wsFiles) = 2
  /\ wsFiles[1].path = <<"src", "main.js">> /\ wsFiles[2].path = <<"lib", "main.js">>
  /\ wsFiles[1].content # wsFiles[2].content
  /\ \E f \in fsFiles :
       /\ f.path[2] = wsId
       /\ \A i \in 1..Len(wsFiles) : f.path # workspaceDir(wsId) \o wsFiles[i].path

\* the identifiers listActivePreviews reports
ListedIds == {p.projectId : p \in listActivePreviews}

\* the step stops the preview id: a client's stopPreview(id), the stopPreview
\* of a failure path for that identifier, or stopAllPreviews
StoppedInStep(id) ==
  \/ StopCall(id, FALSE)
  \/ \E r \in Req : pid[r] = id /\ Cleanup(r)
  \/ StopAll(FALSE, {"ok"})

Failing == {"cleanup", "cleanup_rm", "done"}

\* C21: within one createProjectPreview call the build is started only while
\* no build of the call has ended, the run only while no run of the call has
\* ended; after a failed build or run the call only cleans up and rejects.
C21_NoRetries ==
  \A r \in Req :
    /\ pc[r] = "build" => buildSt[r] = "none"
    /\ pc[r] \in {"probe", "run"} => runSt[r] = "none"
    /\ buildSt[r] = "failed" => (pc[r] \in Failing /\ runSt[r] = "none")
    /\ runSt[r] = "failed" => pc[r] \in Failing
    /\ (pc[r] = "done" /\ "failed" \in {buildSt[r], runSt[r]})
         => outcome[r].kind = "rejected"

\* the run of a call failed after its build, and the call was rejected
C21_Witness ==
  \E r \in Req :
    /\ pc[r] = "done" /\ buildSt[r] = "ok" /\ runSt[r] = "failed"
    /\ outcome[r].kind = "rejected" /\ outcome[r].phase = "run"

\* the text of a phase error says which phase failed
NamesPhase(original, phase) ==
  CASE phase = "fetch" -> original[1] = "Failed to fetch repository files: "
    [] phase = "workspace" -> original[1] = "Failed to create workspace: "
    [] phase = "dockerfile" -> original[Len(original)] = "Dockerfile"
    [] phase = "build" -> original[1] = "Docker build failed: "
    [] phase = "run" -> original[1] \in {"Container start failed: ",
                                         "No available ports in range", "listen "}
    [] OTHER -> FALSE

\* C22: a createProjectPreview call that ends either resolves with projectId,
\* projectType, preview.port, the container and preview.healthy all set, or
\* rejects with one error whose message says which of the five phases failed.
C22_OutcomeDichotomy ==
  \A r \in Req :
    pc[r] = "done" =>
      \/ /\ outcome[r].kind = "resolved"
         /\ outcome[r].projectId \in IDS
         /\ outcome[r].projectType # "none"
         /\ outcome[r].port # NoPort
         /\ outcome[r].containerName = PreviewName(pid[r])
         /\ outcome[r].healthy \in BOOLEAN
      \/ /\ outcome[r].kind = "rejected"
         /\ outcome[r].message[1] = "Preview creation failed: "
         /\ NamesPhase(outcome[r].message[2], err[r])

\* C23: a list whose package.json has react, and no Next.js dependency, among
\* its dependencies is detected as react, with or without a Vite config file
\* or a vite dependency.
C23_ReactDependencyIsReact ==
  \A r \in Req :
    (/\ Detected(r)
     /\ \E i \in 1..Len(files[r]) :
          /\ IsFirst(i, FilesNamed(files[r], "package", "json"))
          /\ Parses(files[r][i]) /\ "react" \in CombinedDeps(files[r][i])
          /\ {"next", "@next/core"} \cap CombinedDeps(files[r][i]) = {})
      => ptype[r] = "react"

\* C24: a call with projectType 'auto' goes on with the archetype that
\* detectProjectType returns for the fetched files, as a call without
\* projectType does.
C24_AutoIsDetected ==
  \A r \in Req :
    (optType[r] = "auto" /\ ptype[r] # "none") =>
      /\ ptype[r] = detectProjectType(files[r])
      /\ ptype[r] \in Archetypes

\* C25: checkContainerHealth sends at most maxRetries probes and ends; it
\* returns healthy true at the first 2xx response, without a further probe,
\* and healthy false exactly when maxRetries probes have failed.
C25_HealthPollBounded ==
  /\ [](\A r \in Req :
          /\ tries[r] <= maxRetries
          /\ pc[r] = "health" => tries[r] < maxRetries
          /\ (pc[r] = "done" /\ outcome[r].kind = "resolved") =>
                (outcome[r].healthy <=> tries[r] < maxRetries))
  /\ [][ \A r \in Req :
           (pc[r] = "health" /\ << pc'[r], tries'[r] >> # << pc[r], tries[r] >>) =>
             /\ pc'[r] \in {"health", "done"}
             /\ pc'[r] = "health" => tries'[r] = tries[r] + 1
             /\ (pc'[r] = "done" /\ outcome'[r].healthy) => tries'[r] = tries[r] ]_vars
  /\ \A r \in Req : (pc[r] = "health") ~> (pc[r] = "done")

\* the last of maxRetries probes got the first 2xx response
C25_Witness ==
  \E r \in Req :
    /\ pc[r] = "done" /\ outcome[r].kind = "resolved" /\ outcome[r].healthy
    /\ tries[r] = maxRetries - 1

\* the port findAvailablePort of call r was started with
ScanStart(r) == SeedPort(config(r).port)

\* C26: findAvailablePort(start) returns the smallest port from start on that
\* is not bound, every port before it having been found in use; it rejects
\* with 'No available ports in range' when every port from start to
\* PORT_RANGE_END is in use, with the bind error at once when the error is
\* another one, and it never probes a port above PORT_RANGE_END.
C26_PortScan ==
  \A r \in Req :
    /\ pc[r] = "probe" => avail[r] <= PORT_RANGE_END
    /\ pc[r] = "run" =>
         /\ avail[r] \in ScanStart(r)..PORT_RANGE_END
         /\ avail[r] \notin BoundPorts
         /\ \A q \in ScanStart(r)..(avail[r] - 1) : q \in BoundPorts
    /\ (runSt[r] = "failed" /\ msg[r] = <<"No available ports in range">>) =>
         \A q \in ScanStart(r)..PORT_RANGE_END : q \in BoundPorts
    /\ (runSt[r] = "failed" /\ msg[r] # <<"No available ports in range">>) =>
         /\ avail[r] \notin BoundPorts
         /\ \A q \in ScanStart(r)..(avail[r] - 1) : q \in BoundPorts

\* the identifier stopAllPreviews derives from a container name
IdOfName(containerName) == StripPrefix(containerName)[1]

\* C27: stopAllPreviews goes on after a docker stop or docker rmi that failed:
\* every listed container is processed, the call returns success true, and
\* its stopped list names exactly the identifiers whose container stop and
\* image removal both succeeded, so that a container that was stopped but
\* whose image is still there is not in the list.
C27_StopAllIsolatesFailures ==
  /\ [](allOut # NoAll =>
          /\ allOut.success
          /\ allOut.attempted = SeqToSet(allOut.listed)
          /\ SeqToSet(allOut.stopped) =
               {IdOfName(n) : n \in allOut.stopOk \cap allOut.rmiOk}
          /\ Len(allOut.stopped) = Cardinality(allOut.stopOk \cap allOut.rmiOk))
  /\ [][ (allOut = NoAll /\ allOut' # NoAll) =>
           /\ SeqToSet(allOut'.listed) = {c.name : c \in PreviewContainers}
           /\ \A c \in PreviewContainers :
                IF IdOfName(c.name) \in SeqToSet(allOut'.stopped)
                THEN /\ c \notin containers'
                     /\ PreviewName(IdOfName(c.name)) \in images \ images'
                ELSE \/ c \in containers'
                     \/ PreviewName(IdOfName(c.name)) \in images'
                     \/ PreviewName(IdOfName(c.name)) \notin images ]_vars

\* two containers were listed: the first was stopped but its docker rmi
\* failed, the second was stopped and its image removed, and it alone is in
\* the stopped list
C27_Witness ==
  /\ allOut # NoAll
  /\ Len(allOut.listed) = 2
  /\ allOut.listed[1] \in allOut.stopOk \ allOut.rmiOk
  /\ allOut.listed[2] \in allOut.rmiOk
  /\ allOut.stopped = << IdOfName(allOut.listed[2]) >>
  /\ PreviewName(IdOfName(allOut.listed[1])) \in images

\* C28: stopAllPreviews changes no workspace directory: previews/<id> of each
\* preview it stopped exists after it has returned and for as long as the
\* identifier is not run again; a directory is removed only by the fs.rm of a
\* stopPreview for its identifier, and a stopPreview(id) for a preview stopped
\* by stopAllPreviews fails at its docker stop, before it gets there.
C28_StopAllKeepsWorkspaces ==
  /\ [][ (allOut = NoAll /\ allOut' # NoAll) => fsDirs' = fsDirs ]_vars
  /\ [](\A id \in allStopped : workspaceDir(id) \in fsDirs)
  /\ [][ \A id \in IDS :
           (workspaceDir(id) \in fsDirs /\ workspaceDir(id) \notin fsDirs') =>
             \/ stopPc = "rm" /\ stopId = id
             \/ \E r \in Req : pc[r] = "cleanup_rm" /\ pid[r] = id ]_vars
  /\ [][ \A id \in allStopped :
           (stopPc = "idle" /\ stopPc' # "idle" /\ stopId' = id) =>
             /\ stopPc' = "done" /\ stopOut' = "threw"
             /\ \A c \in containers : c.name # PreviewName(id)
             /\ << containers', images', fsDirs' >> = << containers, images, fsDirs >> ]_vars

\* stopAllPreviews has stopped preview id and returned; a later stopPreview(id)
\* has thrown, and previews/<id> is still there
C28_Witness ==
  \E id \in allStopped :
    /\ allOut = NoAll
    /\ stopPc = "done" /\ stopId = id /\ stopOut = "threw"
    /\ workspaceDir(id) \in fsDirs

\* the step is one of call r
StepOf(r) == << pc'[r], tries'[r], probed'[r] >> # << pc[r], tries[r], probed[r] >>

\* what differs between two sets
Changed(before, after) == (before \ after) \cup (after \ before)

\* C29: while the calls in flight have distinct identifiers, a step of one
\* call creates and removes no container, image or workspace but those of
\* its own identifier, and it reads no other: the container its health probe
\* reaches is its own.
C29_RequestIndependence ==
  [][ \A r \in Req :
        (/\ StepOf(r)
         /\ pid[r] # NoId
         /\ \A q \in Req \ {r} : pid[q] # pid[r]) =>
          /\ \A c \in Changed(containers, containers') : c.name = PreviewName(pid[r])
          /\ \A i \in Changed(images, images') : i = PreviewName(pid[r])
          /\ \A d \in Changed(fsDirs, fsDirs') : d = workspaceDir(pid[r])
          /\ (pc[r] = "health") =>
                \A c \in containers :
                  c.hostPort = probed'[r] => c.name = PreviewName(pid[r]) ]_vars

\* C30: a call whose phase failed runs stopPreview for its own identifier
\* once, then rejects, and whether that stopPreview returned or threw the
\* error the caller gets is 'Preview creation failed: ' followed by the
\* message of the phase's error, never the message of the cleanup error.
C30_CleanupNeverMasks ==
  /\ [](\A r \in Req :
          (pc[r] = "done" /\ outcome[r].kind = "rejected") =>
            /\ msg[r] # NoText
            /\ msg[r] # StopErrorMessage
            /\ outcome[r].message = <<"Preview creation failed: ", msg[r]>>
            /\ outcome[r].projectId = pid[r])
  /\ [][ \A r \in Req :
           /\ (pc[r] # "cleanup" /\ pc'[r] = "cleanup") =>
                /\ pc[r] \in {"fetch", "workspace", "dockerfile", "build", "probe", "run"}
                /\ msg'[r] # NoText
           /\ (pc[r] \in {"cleanup", "cleanup_rm"} /\ pc'[r] # pc[r]) =>
                /\ msg'[r] = msg[r] /\ pid'[r] = pid[r]
                /\ pc'[r] = IF pc[r] = "cleanup" /\ ContainersOf(pid[r]) # {}
                                /\ PreviewName(pid[r]) \in images
                             THEN "cleanup_rm" ELSE "done"
                /\ \A c \in containers \ containers' : c.name = PreviewName(pid[r])
                /\ \A i \in images \ images' : i = PreviewName(pid[r])
                /\ \A d \in fsDirs \ fsDirs' : d = workspaceDir(pid[r])
           /\ (outcome[r].kind # "rejected" /\ outcome'[r].kind = "rejected") =>
                /\ pc[r] \in {"cleanup", "cleanup_rm"}
                /\ pc'[r] = "done" ]_vars

\* a build has failed, the stopPreview of the catch block has thrown at its
\* docker stop (the workspace is still there), and the call has rejected with
\* the message of the build error
C30_Witness ==
  /\ pc[1] = "done"
  /\ outcome[1].kind = "rejected"
  /\ outcome[1].phase = "build"
  /\ outcome[1].message = <<"Preview creation failed: ", <<"Docker build failed: ", "stderr">>>>
  /\ workspaceDir(pid[1]) \in fsDirs
  /\ ContainersOf(pid[1]) = {}

====
